---- MODULE Spec2Model ----
(***************************************************************************)
(* A model of the stack interpreter of simple-rust-stack-interp: the       *)
(* loader (Interp::parse, parse_line, parse_number) and the execution      *)
(* engine (Interp::run, Stack), in its two variants: interp/src/lib.rs     *)
(* (control point after the fetch) and src/main.rs (merge point before     *)
(* the fetch).                                                             *)
(*                                                                         *)
(* Text is modelled as sequences of one-character strings, so that trim,   *)
(* split, the number parser and the decimal formatter are computed.        *)
(***************************************************************************)
EXTENDS Integers, Sequences, FiniteSets, TLC

\* ------------------------------------------------------------------ bounds

\* Longest program text drawn freely from Vocabulary.
MaxLines == 3
\* Cap on the number of instructions one run fetches (looping programs).
MaxSteps == 20
\* Largest start value N of the countdown programs.
MaxCount == 3

\* ------------------------------------------------------- RawNumber = i32

\* The largest and the smallest i32.
RawMax == 2147483647
RawMin == -RawMax - 1
InRaw(n) == RawMin <= n /\ n <= RawMax
\* Whether a + b (resp. b - a) leaves the i32 range, decided without leaving it.
add_overflows(a, b) ==
  \/ b > 0 /\ a > RawMax - b
  \/ b < 0 /\ a < RawMin - b
sub_overflows(b, a) ==
  \/ a < 0 /\ b > RawMax + a
  \/ a > 0 /\ b < RawMin + a
\* The two's-complement result of a + b: the sum, 2^32 further down after an
\* overflow upwards and 2^32 further up after an overflow downwards.
wrapping_add(a, b) ==
  IF b > 0 /\ a > RawMax - b THEN (a + RawMin) + (b + RawMin)
  ELSE IF b < 0 /\ a < RawMin - b THEN (a - RawMin) + (b - RawMin)
  ELSE a + b
\* The two's-complement result of b - a.
wrapping_sub(b, a) ==
  IF a < 0 /\ b > RawMax + a THEN (b + RawMin) - (a - RawMin)
  ELSE IF a > 0 /\ b < RawMin + a THEN (b - RawMin) - (a + RawMin)
  ELSE b - a

\* --------------------------------------------------------------- strings

SP == <<" ">>
WhiteSpace == {" ", "\t"}
Digits == <<"0", "1", "2", "3", "4", "5", "6", "7", "8", "9">>
IsDigit(c) == \E i \in 1..10 : Digits[i] = c
DigitVal(c) == (CHOOSE i \in 1..10 : Digits[i] = c) - 1

\* str::trim: leading and trailing whitespace removed.
RECURSIVE trim_start(_)
trim_start(s) ==
  IF s # <<>> /\ Head(s) \in WhiteSpace THEN trim_start(Tail(s)) ELSE s
RECURSIVE trim_end(_)
trim_end(s) ==
  IF s # <<>> /\ s[Len(s)] \in WhiteSpace
  THEN trim_end(SubSeq(s, 1, Len(s) - 1)) ELSE s
trim(s) == trim_end(trim_start(s))

\* str::split(" "): cut at every single space; consecutive spaces give empty
\* pieces and the empty string gives one empty piece.
RECURSIVE split(_)
split(s) ==
  IF \E i \in 1..Len(s) : s[i] = " "
  THEN LET i == CHOOSE k \in 1..Len(s) :
                  s[k] = " " /\ \A j \in 1..(k - 1) : s[j] # " "
       IN <<SubSeq(s, 1, i - 1)>> \o split(SubSeq(s, i + 1, Len(s)))
  ELSE <<s>>

\* The operands iterator of parse_line: line.trim().split(" ").map(trim).
operands(line) ==
  LET parts == split(trim(line)) IN [i \in 1..Len(parts) |-> trim(parts[i])]

\* The checked accumulation of i32::from_str: digits are added for a positive
\* number and subtracted for a negative one, and a step that would leave the
\* range fails. [ok, val] after the digits s, starting from acc.
RECURSIVE accumulate(_, _, _)
accumulate(s, acc, negative) ==
  IF s = <<>> THEN [ok |-> TRUE, val |-> acc]
  ELSE LET d == DigitVal(Head(s)) IN
       IF negative
       THEN IF acc < (RawMin + d + 9) \div 10 THEN [ok |-> FALSE, val |-> 0]
            ELSE accumulate(Tail(s), 10 * acc - d, negative)
       ELSE IF acc > (RawMax - d) \div 10 THEN [ok |-> FALSE, val |-> 0]
            ELSE accumulate(Tail(s), 10 * acc + d, negative)

\* s.parse::<i32>(): an optional sign, at least one digit, nothing else, and a
\* value in range.
parse_raw(s) ==
  LET signed == s # <<>> /\ Head(s) \in {"+", "-"}
      body == IF signed THEN Tail(s) ELSE s
      wellformed == body # <<>> /\ \A i \in 1..Len(body) : IsDigit(body[i])
  IN IF wellformed THEN accumulate(body, 0, signed /\ Head(s) = "-")
     ELSE [ok |-> FALSE, val |-> 0]

\* println!("{}", arg): the decimal text of an i32.
RECURSIVE format_nat(_)
format_nat(n) ==
  IF n < 10 THEN <<Digits[n + 1]>>
  ELSE format_nat(n \div 10) \o <<Digits[(n % 10) + 1]>>
\* The digits of n <= 0, most significant first (RawMin has no positive twin).
RECURSIVE format_neg(_)
format_neg(n) ==
  LET d == (10 - (n % 10)) % 10
      q == (n + d) \div 10
  IN IF q = 0 THEN <<Digits[d + 1]>> ELSE format_neg(q) \o <<Digits[d + 1]>>
format(n) == IF n < 0 THEN <<"-">> \o format_neg(n) ELSE format_nat(n)

\* ------------------------------------------------------------ data model

NoLabel == <<>>
\* enum Instr, one record shape for every variant.
Instr(op, val, label) == [op |-> op, val |-> val, label |-> label]
\* enum ParsedLine, plus the fatal exit parse_line can take instead.
LineInstr(i) == [kind |-> "Instr", instr |-> i, name |-> NoLabel, msg |-> ""]
LineLabel(l) ==
  [kind |-> "Label", instr |-> Instr("Pop", 0, NoLabel), name |-> l, msg |-> ""]
LineFatal(m) ==
  [kind |-> "Fatal", instr |-> Instr("Pop", 0, NoLabel), name |-> NoLabel, msg |-> m]

\* The opcode names.
W_add == <<"a", "d", "d">>
W_sub == <<"s", "u", "b">>
W_print == <<"p", "r", "i", "n", "t">>
W_pop == <<"p", "o", "p">>
W_dup == <<"d", "u", "p">>
W_je == <<"j", "e">>
W_jne == <<"j", "n", "e">>
W_push == <<"p", "u", "s", "h">>

\* A label test that also takes the empty token for a directive.
ends_with_colon_or_empty(s) == s = <<>> \/ s[Len(s)] = ":"
ends_with_colon(s) == s # <<>> /\ s[Len(s)] = ":"

\* A line tail that lets left-over tokens pass.
finish_line_lenient(ops, used, rv) == rv
\* The tail of parse_line: a token left over after the line's operands.
finish_line(ops, used, rv) ==
  IF Len(ops) > used THEN LineFatal("parse error: too many operands") ELSE rv

\* The je and jne arms: a number, then the target, taken verbatim.
parse_jump(ops, op) ==
  IF Len(ops) < 2 THEN LineFatal("parse error: too few arguments")
  ELSE LET num == parse_raw(ops[2]) IN
       IF ~num.ok THEN LineFatal("parse error: unparsed number")
       ELSE IF Len(ops) < 3 THEN LineFatal("parse error: too few arguments")
       ELSE finish_line(ops, 3, LineInstr(Instr(op, num.val, ops[3])))

\* The push arm.
parse_push(ops) ==
  IF Len(ops) < 2 THEN LineFatal("parse error: too few arguments")
  ELSE LET num == parse_raw(ops[2]) IN
       IF ~num.ok THEN LineFatal("parse error: unparsed number")
       ELSE finish_line(ops, 2, LineInstr(Instr("Push", num.val, NoLabel)))

\* Interp::parse_line.
parse_line(line) ==
  LET ops == operands(line)
      opcode == ops[1]
  IN CASE opcode = W_add -> finish_line(ops, 1, LineInstr(Instr("Add", 0, NoLabel)))
       [] opcode = W_sub -> finish_line(ops, 1, LineInstr(Instr("Sub", 0, NoLabel)))
       [] opcode = W_print -> finish_line(ops, 1, LineInstr(Instr("Print", 0, NoLabel)))
       [] opcode = W_pop -> finish_line(ops, 1, LineInstr(Instr("Pop", 0, NoLabel)))
       [] opcode = W_dup -> finish_line(ops, 1, LineInstr(Instr("Dup", 0, NoLabel)))
       [] opcode = W_je -> parse_jump(ops, "JumpEqual")
       [] opcode = W_jne -> parse_jump(ops, "JumpNotEqual")
       [] opcode = W_push -> parse_push(ops)
       [] OTHER ->
            IF ends_with_colon(opcode)
            THEN finish_line(ops, 1, LineLabel(SubSeq(opcode, 1, Len(opcode) - 1)))
            ELSE LineFatal("parse error: unknown opcode")

\* ------------------------------------------------------------ program texts

Join2(a, b) == a \o SP \o b
Join3(a, b, c) == a \o SP \o b \o SP \o c
L_loop == <<"l", "o", "o", "p">>
L_skip == <<"s", "k", "i", "p">>
L_a == <<"a">>
Colon(l) == l \o <<":">>
PushLine(n) == Join2(W_push, format(n))

\* The lines free texts are made of: every opcode, a label and its two jumps,
\* a blank line and an unknown opcode.
Vocabulary ==
  { PushLine(0), PushLine(1), W_pop, W_add, W_sub, W_dup, W_print,
    Join3(W_je, <<"0">>, L_a), Join3(W_jne, <<"0">>, L_a), Colon(L_a),
    <<>>, <<"f", "r", "o", "b">> }

FreeTexts == UNION { [1..n -> Vocabulary] : n \in 0..MaxLines }

\* push N, loop:, push 1, sub, dup, jne 0 loop, print.
Countdown(n) ==
  << PushLine(n), Colon(L_loop), PushLine(1), W_sub, W_dup,
     Join3(W_jne, <<"0">>, L_loop), W_print >>

SubText == << PushLine(10), PushLine(3), W_sub, W_print >>
SubDeepText == << PushLine(5), PushLine(10), PushLine(3), W_sub, W_print, W_print >>
AddText == << PushLine(3), PushLine(4), W_add, W_print >>
DupText == << PushLine(5), W_dup, W_add, W_print >>
ForwardText ==
  << PushLine(0), Join3(W_je, <<"0">>, L_skip), PushLine(99), W_pop,
     Colon(L_skip), PushLine(1), W_print >>
PopText == << PushLine(1), PushLine(2), W_pop, W_print >>
UnderflowText == << W_pop >>
AddOverflowText == << PushLine(RawMax), PushLine(1), W_add, W_print >>
SubOverflowText == << PushLine(RawMin), PushLine(1), W_sub, W_print >>
UndefinedText ==
  << PushLine(7), W_print, PushLine(0), Join3(W_je, <<"0">>, L_skip), W_print >>
UndefinedUntakenText ==
  << PushLine(7), Join3(W_je, <<"0">>, L_skip), PushLine(2), W_print >>
DuplicateText ==
  << Colon(L_loop), PushLine(1), W_print, Colon(L_loop), W_print >>
TrailingLabelText ==
  << PushLine(1), Colon(L_a), Colon(L_skip), Join3(W_jne, <<"0">>, L_skip),
     Colon(L_loop) >>
\* Lines that do not match the opcode grammar, and two that do with odd spacing.
MalformedTexts ==
  { << W_push >>, << Join2(W_push, <<"x">>) >>, << Join2(W_pop, <<"1">>) >>,
    << W_push \o SP \o SP \o <<"1">> >>, << Join2(Colon(L_a), <<"b">>) >>,
    << Join2(W_je, <<"0">>) >>, << Join2(W_je, L_a) >>,
    << Join2(W_push, <<"2", "1", "4", "7", "4", "8", "3", "6", "4", "8">>) >>,
    << Join3(W_push, <<"1">>, <<"2">>) >>, << <<" ", "\t">> >>,
    << PushLine(1), W_print, <<>> >>,
    << <<" ">> \o Join2(W_push, <<"+", "7">>) \o <<"\t">>, W_print >>,
    << Join2(W_push, <<"0", "0", "7">>), W_print >>,
    << Join2(W_push, <<"-", "2", "1", "4", "7", "4", "8", "3", "6", "4", "9">>) >>,
    << Join2(W_push, <<"-">>) >>, << Join2(W_push, <<"1", "x">>) >>,
    << Join2(Join3(W_jne, <<"0">>, L_a), <<"b">>) >>,
    << Join3(<<"f", "r", "o", "b">>, <<"1">>, <<"2">>) >>,
    << <<":">>, W_print >> }

Examples ==
  { SubText, SubDeepText, AddText, DupText, ForwardText, AddOverflowText,
    SubOverflowText, PopText, UnderflowText, UndefinedText, UndefinedUntakenText, DuplicateText,
    TrailingLabelText }
  \cup { Countdown(n) : n \in 1..MaxCount } \cup MalformedTexts

Texts == FreeTexts \cup Examples

\* ----------------------------------------------------------------- state

VARIABLES
  variant,    \* "lib" (interp/src/lib.rs) or "main" (src/main.rs)
  file_ok,    \* whether File::open succeeds
  text,       \* the lines reader.lines() yields
  ctl,        \* where the process is: open, parse, fetch, dispatch, done, fatal, panic
  lineno,     \* the line Interp::parse reads next
  program,    \* Program
  labels,     \* LabelMap
  stack,      \* Stack.stack
  pc,         \* Interp.pc
  out,        \* the lines println! wrote for Print instructions
  fatal_msg,  \* the message of the FATAL line, "" while there is none
  notes,      \* the locations the control-point hook was called with
  executed    \* the addresses of the instructions dispatched so far

vars ==
  << variant, file_ok, text, ctl, lineno, program, labels, stack, pc, out,
     fatal_msg, notes, executed >>
input == << variant, file_ok, text >>
loaded == << lineno, program, labels >>
machine == << stack, pc, out >>
trace == << notes, executed >>

Variants == {"lib", "main"}
EmptyLabels == [l \in {} |-> 0]

\* The process starts: a variant, and a file that opens and holds one of
\* `texts`, or a file that does not open.
start(texts) ==
  /\ variant \in Variants
  /\ \/ file_ok = TRUE /\ text \in texts
     \/ file_ok = FALSE /\ text = <<>>
  /\ ctl = "open"
  /\ lineno = 1
  /\ program = <<>>
  /\ labels = EmptyLabels
  /\ stack = <<>>
  /\ pc = 0
  /\ out = <<>>
  /\ fatal_msg = ""
  /\ notes = <<>>
  /\ executed = <<>>

Init == start(Texts)
InitExamples == start(Examples)

\* fatal(msg): the FATAL line, then exit(1).
fatal(msg) ==
  /\ ctl' = "fatal"
  /\ fatal_msg' = msg

\* ---------------------------------------------------------------- loader

\* Interp::parse up to the loop: File::open.
Open ==
  /\ ctl = "open"
  /\ IF file_ok
     THEN ctl' = "parse" /\ UNCHANGED fatal_msg
     ELSE fatal("Failed to open input file")
  /\ UNCHANGED << input, loaded, machine, trace >>

\* An insertion that never reports the label as already there.
is_some_never(map, label) == FALSE
\* labels.insert(..).is_some(): the label was in the table already.
is_some(map, label) == label \in DOMAIN map

\* An insertion that binds the label one address too far.
insert_next(map, label, addr) ==
  [l \in DOMAIN map \cup {label} |-> IF l = label THEN addr + 1 ELSE map[l]]
\* labels.insert(label, program.len()): the table after the insertion.
insert(map, label, addr) ==
  [l \in DOMAIN map \cup {label} |-> IF l = label THEN addr ELSE map[l]]

\* One turn of the loop of Interp::parse.
ParseLine ==
  /\ ctl = "parse"
  /\ lineno <= Len(text)
  /\ LET r == parse_line(text[lineno]) IN
       CASE r.kind = "Instr" ->
              /\ program' = Append(program, r.instr)
              /\ lineno' = lineno + 1
              /\ UNCHANGED << labels, ctl, fatal_msg >>
         [] r.kind = "Label" ->
              /\ labels' = insert(labels, r.name, Len(program))
              /\ IF is_some(labels, r.name)
                 THEN fatal("parse error: duplicate label") /\ UNCHANGED lineno
                 ELSE lineno' = lineno + 1 /\ UNCHANGED << ctl, fatal_msg >>
              /\ UNCHANGED program
         [] OTHER ->
              /\ fatal(r.msg)
              /\ UNCHANGED loaded
  /\ UNCHANGED << input, machine, trace >>

\* The end of Interp::parse and the rest of Interp::new; run is entered.
New ==
  /\ ctl = "parse"
  /\ lineno > Len(text)
  /\ ctl' = "fetch"
  /\ stack' = <<>>
  /\ pc' = 0
  /\ UNCHANGED << input, loaded, out, fatal_msg, trace >>

\* ---------------------------------------------------------------- engine

\* Whether the top of the loop calls the hook: lib.rs calls control_point after
\* a successful fetch, main.rs calls jit_merge_point before the fetch.
hook_called(v, fetched) == IF v = "main" THEN TRUE ELSE fetched

\* A fetch that also succeeds one past the last instruction.
get_inclusive(prog, addr) == addr <= Len(prog)
\* self.program.get(self.pc): whether there is an instruction at addr.
get(prog, addr) == addr < Len(prog)

\* A turn of the loop whose hook empties the operand stack.
FetchHookClobbers ==
  /\ ctl = "fetch"
  /\ get(program, pc) => Len(executed) < MaxSteps
  /\ LET fetched == get(program, pc) IN
       /\ notes' = IF hook_called(variant, fetched) THEN Append(notes, pc) ELSE notes
       /\ stack' = IF hook_called(variant, fetched) THEN <<>> ELSE stack
       /\ ctl' = IF fetched THEN "dispatch" ELSE "done"
  /\ UNCHANGED << input, loaded, pc, out, fatal_msg, executed >>
\* The top of the loop of Interp::run: the fetch and the hook.
Fetch ==
  /\ ctl = "fetch"
  /\ get(program, pc) => Len(executed) < MaxSteps
  /\ LET fetched == get(program, pc) IN
       /\ notes' = IF hook_called(variant, fetched) THEN Append(notes, pc) ELSE notes
       /\ ctl' = IF fetched THEN "dispatch" ELSE "done"
  /\ UNCHANGED << input, loaded, machine, fatal_msg, executed >>

\* The instruction the match dispatches on.
instr == program[pc + 1]
\* Stack::push.
push(s, val) == Append(s, val)
\* The stack below its n top values.
below(s, n) == SubSeq(s, 1, Len(s) - n)
\* The n-th value from the top (1 is the top).
peek(s, n) == s[Len(s) + 1 - n]

\* An underflow that goes unnoticed: the instruction is skipped.
underflow_ignored(popped) ==
  /\ stack' = below(stack, popped)
  /\ pc' = pc + 1
  /\ ctl' = "fetch"
  /\ UNCHANGED << out, fatal_msg >>

\* Stack::pop on an empty stack, after `popped` pops of this instruction went well.
underflow(popped) ==
  /\ stack' = below(stack, popped)
  /\ fatal("stack underflow")
  /\ UNCHANGED << pc, out >>

\* A dispatch that forgets the label table.
dispatch_forgetting(op) ==
  /\ ctl = "dispatch"
  /\ instr.op = op
  /\ executed' = Append(executed, pc)
  /\ labels' = EmptyLabels
  /\ UNCHANGED << input, lineno, program, notes >>
\* An instruction begins: the match is entered at pc.
dispatch(op) ==
  /\ ctl = "dispatch"
  /\ instr.op = op
  /\ executed' = Append(executed, pc)
  /\ UNCHANGED << input, loaded, notes >>

\* The instruction went well and pc moves to `target`.
continue_at(target) ==
  /\ pc' = target
  /\ ctl' = "fetch"
  /\ UNCHANGED fatal_msg

\* arg1 + arg2 or arg2 - arg1 left the i32 range in a build with overflow checks.
overflow_panic ==
  /\ ctl' = "panic"
  /\ stack' = below(stack, 2)
  /\ UNCHANGED << pc, out, fatal_msg >>

ExecPush ==
  /\ dispatch("Push")
  /\ stack' = push(stack, instr.val)
  /\ continue_at(pc + 1)
  /\ UNCHANGED out

\* The value Add pushes: arg1 is popped first.
add_value(arg1, arg2) == wrapping_add(arg1, arg2)

ExecAdd ==
  /\ dispatch("Add")
  /\ IF Len(stack) < 2 THEN underflow(Len(stack))
     ELSE LET arg1 == peek(stack, 1)
              arg2 == peek(stack, 2)
          IN \E checks \in BOOLEAN :
               IF checks /\ add_overflows(arg1, arg2) THEN overflow_panic
               ELSE /\ stack' = push(below(stack, 2), add_value(arg1, arg2))
                    /\ continue_at(pc + 1)
                    /\ UNCHANGED out

\* A Dup that pushes the value it popped only once.
dup_stack_once(s) == push(below(s, 1), peek(s, 1))
\* The stack after Dup: the value popped is pushed twice.
dup_stack(s) == push(push(below(s, 1), peek(s, 1)), peek(s, 1))

ExecDup ==
  /\ dispatch("Dup")
  /\ IF Len(stack) < 1 THEN underflow(0)
     ELSE /\ stack' = dup_stack(stack)
          /\ continue_at(pc + 1)
          /\ UNCHANGED out

\* Sub with its operands the other way round.
sub_value_swapped(arg1, arg2) == wrapping_sub(arg1, arg2)
\* The value Sub pushes: arg1 is popped first, arg2 second.
sub_value(arg1, arg2) == wrapping_sub(arg2, arg1)

ExecSub ==
  /\ dispatch("Sub")
  /\ IF Len(stack) < 2 THEN underflow(Len(stack))
     ELSE LET arg1 == peek(stack, 1)
              arg2 == peek(stack, 2)
          IN \E checks \in BOOLEAN :
               IF checks /\ sub_overflows(arg2, arg1) THEN overflow_panic
               ELSE /\ stack' = push(below(stack, 2), sub_value(arg1, arg2))
                    /\ continue_at(pc + 1)
                    /\ UNCHANGED out

\* A Print that leaves the value it wrote on the stack.
ExecPrintPeek ==
  /\ dispatch("Print")
  /\ IF Len(stack) < 1 THEN underflow(0)
     ELSE /\ out' = Append(out, format(peek(stack, 1)))
          /\ stack' = stack
          /\ continue_at(pc + 1)

ExecPrint ==
  /\ dispatch("Print")
  /\ IF Len(stack) < 1 THEN underflow(0)
     ELSE /\ out' = Append(out, format(peek(stack, 1)))
          /\ stack' = below(stack, 1)
          /\ continue_at(pc + 1)

ExecPop ==
  /\ dispatch("Pop")
  /\ IF Len(stack) < 1 THEN underflow(0)
     ELSE /\ stack' = below(stack, 1)
          /\ continue_at(pc + 1)
          /\ UNCHANGED out

\* A jump that pops its value only when it is taken.
jump_peeking(taken, label) ==
  /\ UNCHANGED out
  /\ IF taken
     THEN /\ stack' = below(stack, 1)
          /\ IF label \in DOMAIN labels
             THEN continue_at(labels[label])
             ELSE fatal("undefined label") /\ UNCHANGED pc
     ELSE stack' = stack /\ continue_at(pc + 1)

\* A jump that looks its label up before it tests its condition.
jump_eager(taken, label) ==
  /\ stack' = below(stack, 1)
  /\ UNCHANGED out
  /\ IF label \notin DOMAIN labels
     THEN fatal("undefined label") /\ UNCHANGED pc
     ELSE continue_at(IF taken THEN labels[label] ELSE pc + 1)

\* A jump that lands one instruction past its label.
jump_past(taken, label) ==
  /\ stack' = below(stack, 1)
  /\ UNCHANGED out
  /\ IF taken
     THEN IF label \in DOMAIN labels
          THEN continue_at(labels[label] + 1)
          ELSE fatal("undefined label") /\ UNCHANGED pc
     ELSE continue_at(pc + 1)
\* The two branches of a jump after its pop: taken (the label is looked up) or
\* not (fall through).
jump(taken, label) ==
  /\ stack' = below(stack, 1)
  /\ UNCHANGED out
  /\ IF taken
     THEN IF label \in DOMAIN labels
          THEN continue_at(labels[label])
          ELSE fatal("undefined label") /\ UNCHANGED pc
     ELSE continue_at(pc + 1)

\* The condition of jne the wrong way round.
not_equal_inverted(val, cmp_val) == val = cmp_val
\* The conditions of the two jumps.
not_equal(val, cmp_val) == val # cmp_val
equal(val, cmp_val) == val = cmp_val

ExecJumpNotEqual ==
  /\ dispatch("JumpNotEqual")
  /\ IF Len(stack) < 1 THEN underflow(0)
     ELSE jump(not_equal(peek(stack, 1), instr.val), instr.label)

ExecJumpEqual ==
  /\ dispatch("JumpEqual")
  /\ IF Len(stack) < 1 THEN underflow(0)
     ELSE jump(equal(peek(stack, 1), instr.val), instr.label)

Next ==
  \/ Open
  \/ ParseLine
  \/ New
  \/ Fetch
  \/ ExecPush
  \/ ExecAdd
  \/ ExecDup
  \/ ExecSub
  \/ ExecPrint
  \/ ExecPop
  \/ ExecJumpNotEqual
  \/ ExecJumpEqual

Spec == Init /\ [][Next]_vars

\* The turns of the loop of Interp::run.
Run ==
  \/ Fetch
  \/ ExecPush
  \/ ExecAdd
  \/ ExecDup
  \/ ExecSub
  \/ ExecPrint
  \/ ExecPop
  \/ ExecJumpNotEqual
  \/ ExecJumpEqual

\* The engine is the only thread: once entered, the loop of run takes its next
\* turn until it returns or the process exits. The texts are the example
\* programs.
FairSpec == InitExamples /\ [][Next]_vars /\ WF_vars(Run)

\* ---------------------------------------------------------------- claims

\* The instruction dispatched last.
last_pc == executed[Len(executed)]
last_op == program[last_pc + 1].op
\* The run has been entered (the load went well).
running == ctl \in {"fetch", "dispatch", "done"} \/ executed # <<>>
\* The process has ended.
ended == ctl \in {"done", "fatal", "panic"}
\* Sub is about to act on two values whose difference is an i32.
sub_ready ==
  /\ ctl = "dispatch"
  /\ instr.op = "Sub"
  /\ Len(stack) >= 2
  /\ ~sub_overflows(peek(stack, 2), peek(stack, 1))

C2_HookOncePerInstruction ==
  running =>
    /\ notes = IF ctl = "dispatch" THEN Append(executed, pc) ELSE executed
    /\ \A i \in 1..Len(notes) : notes[i] < Len(program)

\* C3: a jump on a non-empty stack pops exactly one value whether or not it is
\* taken; when its condition holds, pc becomes the address of the label, or
\* the run ends in the fatal 'undefined label' state when the table has no
\* such label; when the condition does not hold, pc becomes pc + 1, defined
\* label or not.
C3_Holds ==
  \/ instr.op = "JumpEqual" /\ stack[Len(stack)] = instr.val
  \/ instr.op = "JumpNotEqual" /\ stack[Len(stack)] # instr.val
C3_JumpReady ==
  /\ ctl = "dispatch"
  /\ instr.op \in {"JumpEqual", "JumpNotEqual"}
  /\ stack # <<>>
C3_Jump ==
  [][C3_JumpReady =>
       /\ stack' = SubSeq(stack, 1, Len(stack) - 1)
       /\ C3_Holds /\ instr.label \in DOMAIN labels =>
            pc' = labels[instr.label] /\ ctl' = "fetch"
       /\ C3_Holds /\ instr.label \notin DOMAIN labels =>
            ctl' = "fatal" /\ fatal_msg' = "undefined label"
       /\ ~C3_Holds => pc' = pc + 1 /\ ctl' = "fetch"]_vars

\* A backward jump has just been taken.
C3_Witness ==
  /\ ctl = "fetch"
  /\ executed # <<>>
  /\ last_op = "JumpNotEqual"
  /\ pc < last_pc
  /\ pc = labels[program[last_pc + 1].label]

\* C4: the run starts at pc = 0 with an empty stack; the engine dispatches an
\* instruction whenever pc is below the program length and returns exactly
\* when it is not; a run that returned wrote no FATAL line; a process ends
\* only by that return or by an error (every other state of the run has a next
\* step, up to the cap MaxSteps); the empty program returns at once with no
\* output.
C4_RunLoop ==
  /\ ctl = "fetch" /\ executed = <<>> => pc = 0 /\ stack = <<>> /\ out = <<>>
  /\ ctl = "dispatch" => pc < Len(program)
  /\ ctl = "done" => pc >= Len(program) /\ fatal_msg = ""
  /\ ctl = "fetch" /\ pc >= Len(program) => ENABLED (Fetch /\ ctl' = "done")
  /\ ctl = "fetch" /\ pc < Len(program) /\ Len(executed) < MaxSteps =>
       ENABLED (Fetch /\ ctl' = "dispatch")
  /\ ctl = "dispatch" =>
       ENABLED (Next /\ ctl' \in {"fetch", "fatal", "panic"})
  /\ file_ok /\ text = <<>> /\ ctl \notin {"open", "parse"} =>
       ctl \in {"fetch", "done"} /\ out = <<>> /\ executed = <<>>

C4_Witness ==
  /\ file_ok
  /\ text = <<>>
  /\ ctl = "done"
  /\ pc = 0

\* An instruction is about to pop from a stack that is too short for it.
C5_Underflowing ==
  /\ ctl = "dispatch"
  /\ \/ instr.op \in {"Pop", "Dup", "Print", "JumpEqual", "JumpNotEqual"}
        /\ Len(stack) = 0
     \/ instr.op \in {"Add", "Sub"} /\ Len(stack) < 2

\* C5: Pop, Dup, Print and the jumps on an empty stack, and Add and Sub on
\* fewer than two values, end in the fatal 'stack underflow' state; the
\* instruction writes no output line and pushes nothing, and after a fatal
\* state nothing happens: no instruction, no hook call, no output.
C5_Underflow ==
  /\ [][C5_Underflowing =>
          /\ ctl' = "fatal"
          /\ fatal_msg' = "stack underflow"
          /\ out' = out
          /\ Len(stack') <= Len(stack)
          /\ stack' = SubSeq(stack, 1, Len(stack'))]_vars
  /\ [][ctl = "fatal" => UNCHANGED vars]_vars
  /\ [](text = UnderflowText /\ ended => ctl = "fatal" /\ out = <<>>)

\* Add found one value only: it was popped, and nothing was pushed.
C5_Witness ==
  /\ ctl = "fatal"
  /\ fatal_msg = "stack underflow"
  /\ executed # <<>>
  /\ last_op = "Add"
  /\ Len(executed) = 2
  /\ stack = <<>>

\* What the loader makes of line i of the text.
parsed(i) == parse_line(text[i])
\* The number of instruction lines before line k.
instr_lines_before(k) ==
  Cardinality({i \in 1..(k - 1) : i <= Len(text) /\ parsed(i).kind = "Instr"})
\* The label directives of the text.
label_lines == {i \in 1..Len(text) : parsed(i).kind = "Label"}
is_jump(i) == i.op \in {"JumpEqual", "JumpNotEqual"}

\* C6: a jump to a label the program does not define never fails the load: a
\* jump line that matches the grammar is loaded as an instruction whatever
\* its target; the fatal 'undefined label' state is entered only by a jump
\* whose condition holds and whose label is not in the table, after a load
\* that went well; what ran before it had its effect (push 7, print, push 0,
\* je 0 skip writes 7 before it fails), and a jump that is not taken does not
\* fail (push 7, je 0 skip, push 2, print writes 2).
C6_JumpLine ==
  /\ ctl = "parse"
  /\ lineno <= Len(text)
  /\ Len(operands(text[lineno])) = 3
  /\ operands(text[lineno])[1] \in {W_je, W_jne}
  /\ parse_raw(operands(text[lineno])[2]).ok
C6_UndefinedLabel ==
  /\ [][C6_JumpLine =>
          /\ ctl' = "parse"
          /\ program' = Append(program, program'[Len(program')])
          /\ is_jump(program'[Len(program')])
          /\ program'[Len(program')].label = operands(text[lineno])[3]]_vars
  /\ [][fatal_msg' = "undefined label" /\ fatal_msg # "undefined label" =>
          /\ C3_JumpReady
          /\ C3_Holds
          /\ instr.label \notin DOMAIN labels
          /\ lineno > Len(text)]_vars
  /\ [](text = UndefinedText /\ ended =>
          /\ fatal_msg = "undefined label"
          /\ out = << <<"7">> >>
          /\ executed = <<0, 1, 2, 3>>)
  /\ [](text = UndefinedUntakenText /\ ended =>
          ctl = "done" /\ out = << <<"2">> >>)

C6_Witness ==
  /\ text = UndefinedText
  /\ ctl = "fatal"
  /\ fatal_msg = "undefined label"
  /\ out = << <<"7">> >>
  /\ last_op = "JumpEqual"

\* Two label directives of the text bind the same name.
C7_Duplicate(i, j) ==
  /\ i < j
  /\ parsed(i).kind = "Label"
  /\ parsed(j).kind = "Label"
  /\ parsed(i).name = parsed(j).name
C7_HasDuplicate ==
  \E j \in 1..Len(text) : \E i \in 1..(j - 1) : C7_Duplicate(i, j)
\* The first directive that repeats a name, and the first line that does not
\* parse (past the end of the text when every line does).
C7_FirstRepeat ==
  CHOOSE j \in 1..Len(text) :
    /\ \E i \in 1..(j - 1) : C7_Duplicate(i, j)
    /\ \A k \in 1..(j - 1) : ~\E i \in 1..(k - 1) : C7_Duplicate(i, k)
C7_FirstBad ==
  IF \E k \in 1..Len(text) : parsed(k).kind = "Fatal"
  THEN CHOOSE k \in 1..Len(text) :
         /\ parsed(k).kind = "Fatal"
         /\ \A m \in 1..(k - 1) : parsed(m).kind # "Fatal"
  ELSE Len(text) + 1
\* No instruction has run, the hook was not called and nothing was written.
C7_NothingRan ==
  /\ ctl \in {"open", "parse", "fatal"}
  /\ executed = <<>>
  /\ notes = <<>>
  /\ out = <<>>

\* C7 as claimed: a text with two label directives of the same name ends in
\* the fatal 'duplicate label' state before any instruction executes.
C7_DuplicateLabel ==
  C7_HasDuplicate =>
    /\ C7_NothingRan
    /\ ctl = "fatal" => fatal_msg = "parse error: duplicate label"

\* C7 as amended: a text with two label directives of the same name ends in a
\* fatal state of the loader before any instruction executes, with no hook
\* call and no output: the 'duplicate label' state when every line before the
\* repeated directive parses, and otherwise the parse error of the first line
\* that does not.
C7_DuplicateLabelAmended ==
  C7_HasDuplicate =>
    /\ C7_NothingRan
    /\ ctl = "fatal" =>
         IF C7_FirstBad > C7_FirstRepeat
         THEN fatal_msg = "parse error: duplicate label"
         ELSE fatal_msg = parsed(C7_FirstBad).msg

\* loop:, push 1, print, loop:, print: the load fails on line 4.
C7_Witness ==
  /\ text = DuplicateText
  /\ ctl = "fatal"
  /\ fatal_msg = "parse error: duplicate label"
  /\ Len(program) = 2
  /\ lineno = 4

\* C8: after a load that went well every label maps to the number of
\* instruction lines before its directive (between 0 and the program length:
\* a trailing label maps to the program length, consecutive labels share an
\* address), the program has one instruction per instruction line and none
\* for a directive, and a jump to a label defined further down works: push 0,
\* je 0 skip, push 99, pop, skip:, push 1, print writes exactly 1.
C8_Labels ==
  /\ running =>
       /\ Len(program) = instr_lines_before(Len(text) + 1)
       /\ DOMAIN labels = {parsed(i).name : i \in label_lines}
       /\ \A i \in label_lines :
            /\ labels[parsed(i).name] = instr_lines_before(i)
            /\ labels[parsed(i).name] \in 0..Len(program)
            /\ i = Len(text) => labels[parsed(i).name] = Len(program)
            /\ i + 1 \in label_lines =>
                 labels[parsed(i).name] = labels[parsed(i + 1).name]
  /\ text = ForwardText /\ ended =>
       ctl = "done" /\ out = << <<"1">> >> /\ executed = <<0, 1, 4, 5>>

C8_Witness ==
  /\ text = ForwardText
  /\ ctl = "done"
  /\ labels[L_skip] = 4
  /\ Len(program) = 6
  /\ out = << <<"1">> >>

\* C9: a valid program without je and jne executes its instructions at the
\* addresses 0, 1, 2, ... in order, none repeated or skipped; the hook is
\* called once for each of them, in that order; and the run takes at most as
\* many steps as the program has instructions, and exactly that many when no
\* underflow occurs.
C9_StraightLine ==
  running /\ (\A i \in 1..Len(program) : ~is_jump(program[i])) =>
    /\ executed = [i \in 1..Len(executed) |-> i - 1]
    /\ Len(executed) <= Len(program)
    /\ Len(notes) \in {Len(executed), Len(executed) + 1}
    /\ \A i \in 1..Len(executed) :
         /\ notes[i] = executed[i]
         /\ Cardinality({k \in 1..Len(notes) : notes[k] = executed[i]}) = 1
    /\ ended /\ fatal_msg # "stack underflow" => Len(executed) = Len(program)

\* C10: the countdown push N, loop:, push 1, sub, dup, jne 0 loop, print, for N
\* in 1..MaxCount, loads without error and, once run is entered, reaches the
\* end of the program with no error, having written one line, 0, and with an
\* empty stack.
C10_Countdown ==
  \A n \in 1..MaxCount :
    /\ (text = Countdown(n) /\ ctl = "fetch" /\ executed = <<>>) ~>
         /\ ctl = "done"
         /\ pc >= Len(program)
         /\ out = << <<"0">> >>
         /\ stack = <<>>
    /\ [](text = Countdown(n) =>
            /\ ctl \notin {"fatal", "panic"}
            /\ out \in {<<>>, << <<"0">> >>}
            /\ out # <<>> => stack = <<>>)

C10_Witness ==
  /\ text = Countdown(MaxCount)
  /\ ctl = "done"
  /\ Len(executed) = 4 * MaxCount + 2
  /\ out = << <<"0">> >>
  /\ stack = <<>>

\* Add or Sub is about to act on two values.
C11_ArithReady ==
  /\ ctl = "dispatch"
  /\ instr.op \in {"Add", "Sub"}
  /\ Len(stack) >= 2

\* C11: Add pushes a + b and Sub pushes b - a reduced modulo 2^32 into the i32
\* range; an overflowing Add or Sub never ends the run in a fatal or abort
\* state, and the run goes on at pc + 1: push 2147483647, push 1, add, print
\* writes -2147483648.
C11_Wraparound ==
  /\ [][C11_ArithReady =>
          /\ ctl' = "fetch"
          /\ pc' = pc + 1
          /\ stack' =
               Append(SubSeq(stack, 1, Len(stack) - 2),
                      IF instr.op = "Add"
                      THEN wrapping_add(stack[Len(stack)], stack[Len(stack) - 1])
                      ELSE wrapping_sub(stack[Len(stack) - 1], stack[Len(stack)]))]_vars
  /\ [](text = AddOverflowText /\ ended =>
          /\ ctl = "done"
          /\ out = << <<"-", "2", "1", "4", "7", "4", "8", "3", "6", "4", "8">> >>)

\* The number of tokens a line must have, by its first token: the opcode and
\* its operands, one token for a label directive, and 0 for anything else.
C12_Arity(tok) ==
  CASE tok \in {W_pop, W_add, W_sub, W_dup, W_print} -> 1
    [] tok = W_push -> 2
    [] tok \in {W_je, W_jne} -> 3
    [] OTHER -> IF tok # <<>> /\ tok[Len(tok)] = ":" THEN 1 ELSE 0
\* The digits of a number without its leading zeros.
C12_Significant(body) ==
  LET nz == {i \in 1..Len(body) : body[i] # "0"}
  IN IF nz = {} THEN <<>>
     ELSE SubSeq(body, CHOOSE i \in nz : \A j \in nz : i <= j, Len(body))
\* a <= b for digit strings of the same length.
C12_LexLeq(a, b) ==
  \/ a = b
  \/ \E i \in 1..Len(a) :
       /\ \A j \in 1..(i - 1) : a[j] = b[j]
       /\ DigitVal(a[i]) < DigitVal(b[i])
\* A decimal 32-bit integer: an optional sign, one digit or more, and a value
\* from -2147483648 to 2147483647.
C12_IsInt(tok) ==
  LET signed == tok # <<>> /\ tok[1] \in {"+", "-"}
      body == IF signed THEN SubSeq(tok, 2, Len(tok)) ELSE tok
      sig == C12_Significant(body)
      last == IF signed /\ tok[1] = "-" THEN "8" ELSE "7"
  IN /\ body # <<>>
     /\ \A i \in 1..Len(body) :
          body[i] \in {"0", "1", "2", "3", "4", "5", "6", "7", "8", "9"}
     /\ \/ Len(sig) < 10
        \/ /\ Len(sig) = 10
           /\ C12_LexLeq(sig, <<"2", "1", "4", "7", "4", "8", "3", "6", "4", last>>)
C12_Messages ==
  { "parse error: unknown opcode", "parse error: too few arguments",
    "parse error: too many operands", "parse error: unparsed number" }
\* The errors the tokens of a line call for; none for a line of the grammar.
C12_Faults(toks) ==
  LET arity == C12_Arity(toks[1]) IN
    IF arity = 0 THEN {"parse error: unknown opcode"}
    ELSE {m \in C12_Messages :
            \/ m = "parse error: too few arguments" /\ Len(toks) < arity
            \/ m = "parse error: too many operands" /\ Len(toks) > arity
            \/ /\ m = "parse error: unparsed number"
               /\ arity >= 2
               /\ Len(toks) >= 2
               /\ ~C12_IsInt(toks[2])}

\* C12: the load fails, with no program and no instruction executed, on a line
\* whose first token is neither an opcode nor ends in ':' (unknown opcode),
\* that has fewer tokens than the opcode's arity (too few arguments) or more
\* (too many operands, also after a label directive or a zero-operand opcode),
\* or whose integer operand is no decimal 32-bit integer, the empty token
\* between two spaces included (unparsed number); the error reported is one
\* the line calls for, and a line of the grammar triggers none of the four.
C12_ParseErrors ==
  /\ [][ctl = "parse" /\ lineno <= Len(text) =>
          IF C12_Faults(operands(text[lineno])) = {}
          THEN /\ fatal_msg' \notin C12_Messages
               /\ ctl' = "parse" \/ fatal_msg' = "parse error: duplicate label"
          ELSE /\ ctl' = "fatal"
               /\ fatal_msg' \in C12_Faults(operands(text[lineno]))
               /\ program' = program]_vars
  /\ [](fatal_msg \in C12_Messages =>
          /\ ctl = "fatal"
          /\ lineno <= Len(text)
          /\ executed = <<>>
          /\ notes = <<>>
          /\ out = <<>>)
  /\ [][ctl = "fatal" => UNCHANGED vars]_vars

\* push, two spaces, 1: the empty token is no number.
C12_Witness ==
  /\ text = << W_push \o SP \o SP \o <<"1">> >>
  /\ ctl = "fatal"
  /\ fatal_msg = "parse error: unparsed number"
  /\ operands(text[1]) = << W_push, <<>>, <<"1">> >>
  /\ program = <<>>

\* Print is about to act on a value.
C13_PrintReady ==
  /\ ctl = "dispatch"
  /\ instr.op = "Print"
  /\ Len(stack) >= 1
\* The dispatches of Print so far.
C13_Prints == {i \in 1..Len(executed) : program[executed[i] + 1].op = "Print"}

\* C13: Print on a non-empty stack pops the top value, appends one entry that
\* reads back as exactly that value to the output and moves pc to pc + 1; no
\* other step changes the output, so the output has one entry per Print that
\* went well, in execution order.
C13_Print ==
  /\ [][IF C13_PrintReady
        THEN /\ Len(out') = Len(out) + 1
             /\ SubSeq(out', 1, Len(out)) = out
             /\ parse_raw(out'[Len(out')]) = [ok |-> TRUE, val |-> stack[Len(stack)]]
             /\ stack' = SubSeq(stack, 1, Len(stack) - 1)
             /\ pc' = pc + 1
             /\ ctl' = "fetch"
        ELSE out' = out]_vars
  /\ [](Len(out) = Cardinality(C13_Prints)
                     - (IF ctl = "fatal" /\ executed # <<>> /\ last_op = "Print"
                        THEN 1 ELSE 0))
  /\ [](executed = <<>> => out = <<>>)

\* push 5, push 10, push 3, sub, print, print has written 7 and then 5.
C13_Witness ==
  /\ text = SubDeepText
  /\ out = << <<"7">>, <<"5">> >>
  /\ Cardinality(C13_Prints) = 2
  /\ ctl = "fetch"

\* Dup is about to act on a value.
C14_DupReady ==
  /\ ctl = "dispatch"
  /\ instr.op = "Dup"
  /\ Len(stack) >= 1

\* C14: Dup on a non-empty stack leaves the stack it found with one more copy
\* of its top on it (one deeper, the two top values equal, the rest as it
\* was) and moves pc to pc + 1; push 5, dup, add, print writes 10.
C14_Dup ==
  /\ [][C14_DupReady =>
          /\ Len(stack') = Len(stack) + 1
          /\ stack'[Len(stack')] = stack[Len(stack)]
          /\ stack'[Len(stack') - 1] = stack[Len(stack)]
          /\ \A i \in 1..Len(stack) : stack'[i] = stack[i]
          /\ pc' = pc + 1
          /\ ctl' = "fetch"
          /\ out' = out]_vars
  /\ [](text = DupText /\ ended => ctl = "done" /\ out = << <<"1", "0">> >>)

\* push 5, dup has run: two fives, and add is next.
C14_Witness ==
  /\ text = DupText
  /\ executed = <<0, 1>>
  /\ stack = <<5, 5>>
  /\ pc = 2

\* An outcome of one instruction: where the process is, and the machine.
C15_Outcome(c, p, s, o, m) ==
  [ctl |-> c, pc |-> p, stack |-> s, out |-> o, msg |-> m]
\* The engine without any hook: the outcomes of the instruction at address p
\* of prog on the stack s with the output o. It continues, stops with a FATAL
\* line, or aborts on an overflow.
C15_Step(prog, labs, p, s, o) ==
  LET i == prog[p + 1]
      n == Len(s)
      rest1 == SubSeq(s, 1, n - 1)
      rest2 == SubSeq(s, 1, n - 2)
      go(p2, s2, o2) == {C15_Outcome("fetch", p2, s2, o2, "")}
      stop(s2, m) == {C15_Outcome("fatal", p, s2, o, m)}
      arith(v, overflows) ==
        go(p + 1, Append(rest2, v), o)
          \cup (IF overflows THEN {C15_Outcome("panic", p, rest2, o, "")} ELSE {})
  IN CASE i.op = "Push" -> go(p + 1, Append(s, i.val), o)
       [] i.op = "Add" ->
            IF n < 2 THEN stop(<<>>, "stack underflow")
            ELSE arith(wrapping_add(s[n], s[n - 1]), add_overflows(s[n], s[n - 1]))
       [] i.op = "Sub" ->
            IF n < 2 THEN stop(<<>>, "stack underflow")
            ELSE arith(wrapping_sub(s[n - 1], s[n]), sub_overflows(s[n - 1], s[n]))
       [] i.op = "Dup" ->
            IF n < 1 THEN stop(<<>>, "stack underflow")
            ELSE go(p + 1, Append(s, s[n]), o)
       [] i.op = "Print" ->
            IF n < 1 THEN stop(<<>>, "stack underflow")
            ELSE go(p + 1, rest1, Append(o, format(s[n])))
       [] i.op = "Pop" ->
            IF n < 1 THEN stop(<<>>, "stack underflow")
            ELSE go(p + 1, rest1, o)
       [] i.op \in {"JumpEqual", "JumpNotEqual"} ->
            IF n < 1 THEN stop(<<>>, "stack underflow")
            ELSE IF (s[n] = i.val) # (i.op = "JumpEqual") THEN go(p + 1, rest1, o)
            ELSE IF i.label \in DOMAIN labs THEN go(labs[i.label], rest1, o)
            ELSE stop(rest1, "undefined label")

\* C15: the hook has no effect on interpretation. In either variant the turn
\* of the loop that calls the hook leaves pc, the stack and the output alone
\* and goes on to dispatch or to the normal end by pc and the program only;
\* every instruction ends as it does in the engine without a hook, and every
\* outcome of that engine is open to the engine with the hook. So with or
\* without the hook, and with the hook before or after the fetch, a program goes
\* through the same (pc, stack) states, writes the same output and ends the
\* same way.
C15_HookTransparent ==
  /\ [][/\ ctl = "fetch" =>
             /\ << pc, stack, out, fatal_msg, executed >>'
                  = << pc, stack, out, fatal_msg, executed >>
             /\ ctl' = IF pc < Len(program) THEN "dispatch" ELSE "done"
        /\ ctl = "dispatch" =>
             /\ C15_Outcome(ctl', pc', stack', out', fatal_msg')
                  \in C15_Step(program, labels, pc, stack, out)
             /\ notes' = notes
        /\ ctl \in {"done", "fatal", "panic"} => UNCHANGED vars]_vars
  /\ [](ctl = "dispatch" =>
          \A o \in C15_Step(program, labels, pc, stack, out) :
            ENABLED (/\ Run
                     /\ ctl' = o.ctl
                     /\ pc' = o.pc
                     /\ stack' = o.stack
                     /\ out' = o.out
                     /\ fatal_msg' = o.msg))
  /\ [](ctl = "fetch" /\ executed = <<>> =>
          pc = 0 /\ stack = <<>> /\ out = <<>> /\ fatal_msg = "")

\* The forward jump has run to its end in main.rs, where the hook was called
\* once more than an instruction was dispatched.
C15_Witness ==
  /\ variant = "main"
  /\ text = ForwardText
  /\ ctl = "done"
  /\ Len(notes) = Len(executed) + 1
  /\ out = << <<"1">> >>

\* What the loader makes of the text: the instructions of its instruction
\* lines, in order, and each label bound to the count of instruction lines
\* before its directive.
C16_LoadedProgram ==
  LET kept == SelectSeq([i \in 1..Len(text) |-> parsed(i)],
                        LAMBDA r : r.kind = "Instr")
  IN [k \in 1..Len(kept) |-> kept[k].instr]
C16_LoadedLabels ==
  [name \in {parsed(i).name : i \in label_lines} |->
     instr_lines_before(CHOOSE i \in label_lines : parsed(i).name = name)]

\* C16: no step of run modifies the Program or the LabelTable: once run is
\* entered both stay what the loader made of the text, and an instruction
\* changes only pc, the operand stack and, for Print alone, the output.
C16_Immutable ==
  /\ [][running =>
          /\ program' = program
          /\ labels' = labels
          /\ lineno' = lineno
          /\ (ctl = "dispatch" /\ instr.op # "Print" => out' = out)]_vars
  /\ [](running => program = C16_LoadedProgram /\ labels = C16_LoadedLabels)

\* The forward jump has been taken through the table and the run is over.
C16_Witness ==
  /\ text = ForwardText
  /\ ctl = "done"
  /\ executed = <<0, 1, 4, 5>>
  /\ labels = C16_LoadedLabels
  /\ labels[L_skip] = 4
  /\ Len(program) = 6

\* C17: in every execution state of a loaded program 0 <= pc <= the program's
\* length: an instruction is dispatched only at pc < length, pc then moves to
\* pc + 1 or to a label's address, and every address in the table is at most
\* the length of the program.
C17_PcInRange ==
  /\ [](running => pc \in 0..Len(program))
  /\ [](running => \A l \in DOMAIN labels : labels[l] \in 0..Len(program))
  /\ [](ctl = "dispatch" => pc < Len(program))
  /\ [][ctl = "dispatch" =>
          \/ pc' = pc
          \/ pc' = pc + 1
          \/ \E l \in DOMAIN labels : pc' = labels[l]]_vars

\* push 0, je 0 a, a: the jump is taken to a label that follows the last
\* instruction, pc is the length of the program, and the run ends there.
C17_Witness ==
  /\ text = << PushLine(0), Join3(W_je, <<"0">>, L_a), Colon(L_a) >>
  /\ ctl = "done"
  /\ executed = <<0, 1>>
  /\ labels[L_a] = 2
  /\ pc = 2
  /\ pc = Len(program)

\* Line i of the text is empty or holds white space only.
C18_Blank(i) == \A k \in 1..Len(text[i]) : text[i][k] \in WhiteSpace
C18_BlankLines == {i \in 1..Len(text) : C18_Blank(i)}

\* C18: an empty or white-space-only line, wherever it stands in the text, is
\* not skipped: it yields the single empty opcode token, the loader stops on
\* it with the fatal 'unknown opcode' error, and a program whose text holds
\* such a line fails to load and never executes an instruction.
C18_BlankLine ==
  /\ [](\A i \in C18_BlankLines :
          /\ operands(text[i]) = << <<>> >>
          /\ parsed(i) = LineFatal("parse error: unknown opcode"))
  /\ [][ctl = "parse" /\ lineno \in C18_BlankLines =>
          /\ ctl' = "fatal"
          /\ fatal_msg' = "parse error: unknown opcode"]_vars
  /\ [](C18_BlankLines # {} =>
          /\ ~running
          /\ executed = <<>>
          /\ notes = <<>>
          /\ out = <<>>
          /\ (ended => ctl = "fatal" /\ lineno \in 1..Len(text)))

\* push 1, print and an empty last line: the two instructions are loaded, the
\* empty line ends the load, and nothing has run.
C18_Witness ==
  /\ text = << PushLine(1), W_print, <<>> >>
  /\ ctl = "fatal"
  /\ lineno = 3
  /\ Len(program) = 2
  /\ fatal_msg = "parse error: unknown opcode"
  /\ executed = <<>>
  /\ out = <<>>

====
